---- MODULE Spec2Model ----
(***************************************************************************)
(* World War Simulator plugin (src/plugin.py): the world document          *)
(* game_data.json and the command handlers that load it, change it and     *)
(* save it back.                                                           *)
(*                                                                         *)
(* disk     the persisted document (./World/data/game_data.json)           *)
(* pending  the handlers that are suspended at an await between the change *)
(*          of their private copy of the world and its save                *)
(* now      the wall clock read by time.time(); every save takes one unit  *)
(* k_factor the configured game.elo_k_factor                               *)
(* horizon  the time at which the clock of the model stops                 *)
(* fault    the last save that failed or was cut short, and whether the    *)
(*          handler told its caller                                        *)
(*                                                                         *)
(* Numbers: Python ints are unbounded, so no width is modelled.  The       *)
(* truncations int(x * 0.3), int(x * 0.2), int(x * 0.15), int(x * 0.05),   *)
(* int(x * 0.03) equal (x * n) \div d for every x below 200000, and the    *)
(* event products int(x * m) equal (x * 100m) \div 100 for every x up to   *)
(* 200 except 100, 180 and 200 times 1.15, where the double product lies   *)
(* just below the integer and int() gives one less (CPython floats).       *)
(* The rating (a float in the source) is kept as an integer number of      *)
(* points, rounded after every update.                                     *)
(***************************************************************************)
EXTENDS Integers, Sequences, FiniteSets, TLC

\* ------------------------------------------------------------------ inputs
\* Player identities (message.message_info.user_info.user_id) and the nation
\* names typed after /join, /pvp, /conquer, /ally, /withdraw.
Users == {"u1", "u2"}

Names == {"A", "B"}

\* Python's None, and the rank given by /join ("士兵", soldier).
None == "None"

Soldier == "Soldier"

\* IDEOLOGIES: the values random.choice draws from at nation creation; the
\* model draws from the first of them.
IDEOLOGIES == {"Democracy"}

\* config_schema "game" defaults, scaled down: initial_troops (1000),
\* initial_territory (15), initial_population (1000000).
initial_troops == 4

initial_territory == 2

initial_population == 10

\* "elo": 1500 at creation, and the floor max(100, ...).
InitialElo == 1500

EloFloor == 100

\* ------------------------------------------------------------------ bounds
\* The clock stops at MaxTime; at MaxTimeCombat and MaxTimeOverlap in the
\* specifications that look at combat alone and at overlapping handlers.
MaxTime == 5

MaxTimeCombat == 7

MaxTimeOverlap == 3

\* The troop counts typed after /pvp and /conquer, the amounts typed after
\* /deploy and /transfer, and the pairs of values the two draws of
\* random.uniform(0.8, 1.2) take, in hundredths: the attacker's best case,
\* equal draws, the defender's best case.
AttackChoices == {0, initial_troops}

DeployChoices == {-initial_troops, initial_troops}

TransferChoices == {0, 1, initial_troops + 1}

Multipliers == {<<120, 80>>, <<100, 100>>, <<80, 120>>}

\* No raid starts once a nation holds this much territory.
MaxTerritory == 4

VARIABLES disk, pending, now, k_factor, horizon, fault

vars == <<disk, pending, now, k_factor, horizon, fault>>

\* ------------------------------------------------------------ the document
Range(s) == {s[i] : i \in DOMAIN s}

\* list(x) of a Python set: its elements in the interpreter's iteration
\* order, which is fixed for a given set.
RECURSIVE list(_)
list(S) ==
    IF S = {} THEN <<>>
    ELSE LET x == CHOOSE y \in S : TRUE IN <<x>> \o list(S \ {x})

\* No file yet.
NoFile ==
    [exists |-> FALSE, complete |-> TRUE, players |-> <<>>, nations |-> <<>>,
     alliances |-> <<>>, last_event_time |-> 0]

\* A file that open(path, 'w') has truncated and json.dump has not finished:
\* no JSON document.
Torn == [NoFile EXCEPT !.exists = TRUE, !.complete = FALSE]

default_data ==
    [players |-> <<>>, nations |-> <<>>, alliances |-> {}, last_event_time |-> 0]

\* A faulty variant of load_game_data that takes the branch for a list that
\* holds no lists, whatever the alliances list holds.
load_game_data_no_alliances(file) ==
    IF file.exists /\ file.complete
    THEN [players |-> file.players,
          nations |-> file.nations,
          alliances |-> {},
          last_event_time |-> file.last_event_time]
    ELSE default_data

\* json.load, then the alliances list of lists turned into a set of
\* frozensets; an empty list gives the empty set.  json.load raises on a file
\* that is no JSON document, and the except clause returns default_data.
load_game_data(file) ==
    IF file.exists /\ file.complete
    THEN [players |-> file.players,
          nations |-> file.nations,
          alliances |-> IF Len(file.alliances) > 0
                        THEN {Range(file.alliances[i]) : i \in DOMAIN file.alliances}
                        ELSE {},
          last_event_time |-> file.last_event_time]
    ELSE default_data

\* json.dump of a copy whose alliances are [list(a) for a in alliances].
save_game_data(data_to_save) ==
    [exists |-> TRUE,
     complete |-> TRUE,
     players |-> data_to_save.players,
     nations |-> data_to_save.nations,
     alliances |-> LET l == list(data_to_save.alliances)
                   IN [i \in DOMAIN l |-> list(l[i])],
     last_event_time |-> data_to_save.last_event_time]

\* ----------------------------------------------------------------- helpers
NoPlayer == [user_id |-> None, nation |-> None, rank |-> None]

NoNation ==
    [name |-> None, troops |-> 0, territory |-> 0, population |-> 0,
     elo |-> 0, leader |-> None, members |-> <<>>, ideology |-> None,
     deployed_troops |-> 0]

get_player_info(game_state, user_id) ==
    IF user_id \in DOMAIN game_state.players
    THEN game_state.players[user_id]
    ELSE NoPlayer

get_player_nation(game_state, user_id) ==
    get_player_info(game_state, user_id).nation

get_nation_info(game_state, nation_name) ==
    IF nation_name \in DOMAIN game_state.nations
    THEN game_state.nations[nation_name]
    ELSE NoNation

\* A lookup that finds a pair only in the order it was proposed in.
are_allies_ordered(game_state, nation1, nation2) ==
    \E alliance \in game_state.alliances :
        /\ nation1 \in alliance
        /\ nation2 \in alliance
        /\ nation1 = (CHOOSE n \in alliance : TRUE)

are_allies(game_state, nation1, nation2) ==
    \E alliance \in game_state.alliances :
        nation1 \in alliance /\ nation2 \in alliance

get_allies(game_state, player_nation) ==
    LET l == list({a \in game_state.alliances : player_nation \in a})
        RECURSIVE extend(_)
        extend(i) ==
            IF i > Len(l) THEN <<>>
            ELSE list(l[i] \ {player_nation}) \o extend(i + 1)
    IN extend(1)

\* What a handler hands back: whether it reached _save_game_data, why it
\* stopped if it did not, and the world it saves.
\* A faulty variant of Rejected: the handler goes on to the save.
RejectedButSaved(reason, game_data) ==
    [saved |-> TRUE, reason |-> reason, data |-> game_data]

Rejected(reason, game_data) ==
    [saved |-> FALSE, reason |-> reason, data |-> game_data]

Done(reason, game_data) ==
    [saved |-> TRUE, reason |-> reason, data |-> game_data]

SetNation(game_data, nation_info) ==
    [game_data EXCEPT !.nations = (nation_info.name :> nation_info) @@ @]

\* ------------------------------------------------------------------- /join
\* Two faulty variants of LeaveOldNation: one forgets to clear the leader
\* field, the other forgets to drop the player from the members list.
LeaveOldNationKeepLeader(game_data, user_id) ==
    LET player_info == get_player_info(game_data, user_id)
        old_nation_info == get_nation_info(game_data, player_info.nation)
    IN IF player_info # NoPlayer /\ old_nation_info # NoNation
       THEN SetNation(game_data,
                [old_nation_info EXCEPT
                    !.members = SelectSeq(@, LAMBDA m : m # user_id)])
       ELSE game_data

LeaveOldNationKeepMember(game_data, user_id) ==
    LET player_info == get_player_info(game_data, user_id)
        old_nation_info == get_nation_info(game_data, player_info.nation)
    IN IF player_info # NoPlayer /\ old_nation_info # NoNation
       THEN SetNation(game_data,
                [old_nation_info EXCEPT
                    !.leader = IF @ = user_id THEN None ELSE @])
       ELSE game_data

\* Lines 426-432: the player leaves the nation they were in.
LeaveOldNation(game_data, user_id) ==
    LET player_info == get_player_info(game_data, user_id)
        old_nation_info == get_nation_info(game_data, player_info.nation)
    IN IF player_info # NoPlayer /\ old_nation_info # NoNation
       THEN SetNation(game_data,
                [old_nation_info EXCEPT
                    !.members = SelectSeq(@, LAMBDA m : m # user_id),
                    !.leader = IF @ = user_id THEN None ELSE @])
       ELSE game_data

\* A faulty variant of AddMember that names the leader without appending the
\* player to the members list.
AddMemberLeaderOnly(existing_nation, user_id) ==
    [existing_nation EXCEPT !.leader = IF @ = None THEN user_id ELSE @]

\* A faulty variant of AddMember that makes every newcomer the leader.
AddMemberTakesLead(existing_nation, user_id) ==
    [existing_nation EXCEPT
        !.members = Append(@, user_id),
        !.leader = user_id]

\* Lines 461-463: the player is appended to the members of the nation they
\* join, and leads it if it has no leader.
AddMember(existing_nation, user_id) ==
    [existing_nation EXCEPT
        !.members = Append(@, user_id),
        !.leader = IF @ = None THEN user_id ELSE @]

JoinCommand(game_data0, user_id, nation_name, ideology) ==
    LET player_info == get_player_info(game_data0, user_id) IN
    IF player_info # NoPlayer /\ player_info.nation = nation_name
    THEN Rejected("already_member", game_data0)
    ELSE
      LET game_data == LeaveOldNation(game_data0, user_id)
          existing_nation == get_nation_info(game_data, nation_name)
          player == [user_id |-> user_id, nation |-> nation_name, rank |-> Soldier]
          SetPlayer(g) == [g EXCEPT !.players = (user_id :> player) @@ @]
      IN IF existing_nation = NoNation
         THEN Done("created",
                SetPlayer(SetNation(game_data,
                    [name |-> nation_name,
                     troops |-> initial_troops,
                     territory |-> initial_territory,
                     population |-> initial_population,
                     elo |-> InitialElo,
                     leader |-> user_id,
                     members |-> <<user_id>>,
                     ideology |-> ideology,
                     deployed_troops |-> 0])))
         ELSE IF existing_nation.leader # None
                 /\ user_id \in Range(existing_nation.members)
         THEN Rejected("already_member", game_data0)
         ELSE Done("joined",
                SetPlayer(SetNation(game_data, AddMember(existing_nation, user_id))))

\* ------------------------------------------------------------------- /ally
\* A faulty variant of AllyCheck without the check for an existing alliance.
AllyCheckNoAllied(game_data, user_id, ally_nation_name) ==
    LET player_nation_name == get_player_nation(game_data, user_id)
        player_nation_info == get_nation_info(game_data, player_nation_name)
        ally_nation_info == get_nation_info(game_data, ally_nation_name)
    IN IF player_nation_name = None THEN "no_nation"
       ELSE IF player_nation_name = ally_nation_name THEN "self"
       ELSE IF ally_nation_info = NoNation THEN "unknown_nation"
       ELSE IF player_nation_info.leader # user_id THEN "not_leader"
       ELSE IF ally_nation_info.leader = None THEN "target_no_leader"
       ELSE "ok"

\* A faulty variant of AllyCheck without the check against one's own nation.
AllyCheckNoSelf(game_data, user_id, ally_nation_name) ==
    LET player_nation_name == get_player_nation(game_data, user_id)
        player_nation_info == get_nation_info(game_data, player_nation_name)
        ally_nation_info == get_nation_info(game_data, ally_nation_name)
    IN IF player_nation_name = None THEN "no_nation"
       ELSE IF ally_nation_info = NoNation THEN "unknown_nation"
       ELSE IF are_allies(game_data, player_nation_name, ally_nation_name)
       THEN "already_allied"
       ELSE IF player_nation_info.leader # user_id THEN "not_leader"
       ELSE IF ally_nation_info.leader = None THEN "target_no_leader"
       ELSE "ok"

\* The checks of /ally in the order of the code (lines 879-910); "ok" when
\* all pass.
AllyCheck(game_data, user_id, ally_nation_name) ==
    LET player_nation_name == get_player_nation(game_data, user_id)
        player_nation_info == get_nation_info(game_data, player_nation_name)
        ally_nation_info == get_nation_info(game_data, ally_nation_name)
    IN IF player_nation_name = None THEN "no_nation"
       ELSE IF player_nation_name = ally_nation_name THEN "self"
       ELSE IF ally_nation_info = NoNation THEN "unknown_nation"
       ELSE IF are_allies(game_data, player_nation_name, ally_nation_name)
       THEN "already_allied"
       ELSE IF player_nation_info.leader # user_id THEN "not_leader"
       ELSE IF ally_nation_info.leader = None THEN "target_no_leader"
       ELSE "ok"

AllyCommand(game_data, user_id, ally_nation_name) ==
    LET check == AllyCheck(game_data, user_id, ally_nation_name)
        new_alliance == {get_player_nation(game_data, user_id), ally_nation_name}
    IN IF check # "ok" THEN Rejected(check, game_data)
       ELSE Done("alliance_formed",
                 [game_data EXCEPT !.alliances = @ \cup {new_alliance}])

\* --------------------------------------------------------------- /withdraw
\* A faulty variant of WithdrawCommand that drops every alliance of the
\* caller's nation.
WithdrawCommandEveryAlliance(game_data, user_id, ally_nation_name) ==
    LET player_nation_name == get_player_nation(game_data, user_id)
        player_nation_info == get_nation_info(game_data, player_nation_name)
        ally_nation_info == get_nation_info(game_data, ally_nation_name)
    IN IF player_nation_name = None
       THEN Rejected("no_nation", game_data)
       ELSE IF player_nation_name = ally_nation_name
       THEN Rejected("self", game_data)
       ELSE IF ally_nation_info = NoNation
       THEN Rejected("unknown_nation", game_data)
       ELSE IF ~are_allies(game_data, player_nation_name, ally_nation_name)
       THEN Rejected("not_allied", game_data)
       ELSE IF player_nation_info.leader # user_id
       THEN Rejected("not_leader", game_data)
       ELSE Done("dissolved",
              [game_data EXCEPT
                  !.alliances = {a \in @ : player_nation_name \notin a}])

\* Lines 966-1009: the first alliance that holds both names is removed.
WithdrawCommand(game_data, user_id, ally_nation_name) ==
    LET player_nation_name == get_player_nation(game_data, user_id)
        player_nation_info == get_nation_info(game_data, player_nation_name)
        ally_nation_info == get_nation_info(game_data, ally_nation_name)
        found == {a \in game_data.alliances :
                    player_nation_name \in a /\ ally_nation_name \in a}
    IN IF player_nation_name = None
       THEN Rejected("no_nation", game_data)
       ELSE IF player_nation_name = ally_nation_name
       THEN Rejected("self", game_data)
       ELSE IF ally_nation_info = NoNation
       THEN Rejected("unknown_nation", game_data)
       ELSE IF ~are_allies(game_data, player_nation_name, ally_nation_name)
       THEN Rejected("not_allied", game_data)
       ELSE IF player_nation_info.leader # user_id
       THEN Rejected("not_leader", game_data)
       ELSE IF found = {}
       THEN Rejected("no_record", game_data)
       ELSE Done("dissolved",
              [game_data EXCEPT
                  !.alliances = @ \ {CHOOSE a \in found : TRUE}])

\* ------------------------------------------------------------------ rating
\* 10000 / (1 + 10 ** (d / 400)) at d = 0, 50, ..., 800, rounded.
ExpectedTable ==
    <<5000, 4285, 3599, 2966, 2403, 1917, 1510, 1177, 909, 698, 532, 405,
      307, 232, 175, 132, 99>>

\* The expected score 1 / (1 + 10 ** (d / 400)) in ten-thousandths, read off
\* the table with linear interpolation; 1 - E(-d) for a negative d.
ExpectedAbove(d) ==
    IF d >= 800 THEN ExpectedTable[17]
    ELSE LET i == (d \div 50) + 1
         IN ExpectedTable[i]
            + ((ExpectedTable[i + 1] - ExpectedTable[i]) * (d % 50)) \div 50

ExpectedScore(d) ==
    IF d >= 0 THEN ExpectedAbove(d) ELSE 10000 - ExpectedAbove(-d)

\* x / 10000 rounded to the nearest point.
Points(x) == (x + 5000) \div 10000

\* A faulty variant of calculate_elo_change that weighs both sides with the
\* expected score of the first.
calculate_elo_change_one_expected(rating_a, rating_b, score_a, k) ==
    LET expected_score_a == ExpectedScore(rating_b - rating_a)
        actual_score_a == score_a * 10000
        actual_score_b == (1 - score_a) * 10000
    IN <<Points(k * (actual_score_a - expected_score_a)),
         Points(k * (actual_score_b - expected_score_a))>>

\* score_a is 1 or 0; the result is <<delta_a, delta_b>> in points.
calculate_elo_change(rating_a, rating_b, score_a, k) ==
    LET expected_score_a == ExpectedScore(rating_b - rating_a)
        expected_score_b == ExpectedScore(rating_a - rating_b)
        actual_score_a == score_a * 10000
        actual_score_b == (1 - score_a) * 10000
    IN <<Points(k * (actual_score_a - expected_score_a)),
         Points(k * (actual_score_b - expected_score_b))>>

Max(a, b) == IF a >= b THEN a ELSE b

Min(a, b) == IF a <= b THEN a ELSE b

\* ------------------------------------------------------------ /pvp /conquer
\* A faulty variant of CombatCheck that looks at the troop count before the
\* alliance.
CombatCheckAmountFirst(game_data, user_id, target_nation_name, attack_troops) ==
    LET attacker_nation_name == get_player_nation(game_data, user_id)
        attacker_nation_info == get_nation_info(game_data, attacker_nation_name)
        target_nation_info == get_nation_info(game_data, target_nation_name)
    IN IF attacker_nation_name = None THEN "no_nation"
       ELSE IF target_nation_info = NoNation THEN "unknown_nation"
       ELSE IF attacker_nation_name = target_nation_name THEN "self"
       ELSE IF attack_troops <= 0 THEN "not_positive"
       ELSE IF attacker_nation_info.troops < attack_troops THEN "insufficient"
       ELSE IF are_allies(game_data, attacker_nation_name, target_nation_name)
       THEN "allied"
       ELSE "ok"

\* A faulty variant of CombatCheck without the alliance check.
CombatCheckNoAllies(game_data, user_id, target_nation_name, attack_troops) ==
    LET attacker_nation_name == get_player_nation(game_data, user_id)
        attacker_nation_info == get_nation_info(game_data, attacker_nation_name)
        target_nation_info == get_nation_info(game_data, target_nation_name)
    IN IF attacker_nation_name = None THEN "no_nation"
       ELSE IF target_nation_info = NoNation THEN "unknown_nation"
       ELSE IF attacker_nation_name = target_nation_name THEN "self"
       ELSE IF attack_troops <= 0 THEN "not_positive"
       ELSE IF attacker_nation_info.troops < attack_troops THEN "insufficient"
       ELSE "ok"

\* The six checks both handlers make before the roll, in the order of the
\* code; "ok" when all pass.
CombatCheck(game_data, user_id, target_nation_name, attack_troops) ==
    LET attacker_nation_name == get_player_nation(game_data, user_id)
        attacker_nation_info == get_nation_info(game_data, attacker_nation_name)
        target_nation_info == get_nation_info(game_data, target_nation_name)
    IN IF attacker_nation_name = None THEN "no_nation"
       ELSE IF target_nation_info = NoNation THEN "unknown_nation"
       ELSE IF attacker_nation_name = target_nation_name THEN "self"
       ELSE IF are_allies(game_data, attacker_nation_name, target_nation_name)
       THEN "allied"
       ELSE IF attack_troops <= 0 THEN "not_positive"
       ELSE IF attacker_nation_info.troops < attack_troops THEN "insufficient"
       ELSE "ok"

\* max(1, troops - deployed_troops) of the defender.
effective_defense_troops(target_nation_info) ==
    Max(1, target_nation_info.troops - target_nation_info.deployed_troops)

\* A faulty variant of AttackerWins that gives a tie to the attacker.
AttackerWinsOnTie(attack_troops, defense, am, dm) ==
    attack_troops * am >= defense * dm

\* attack_power > defense_power, the two multipliers in hundredths.
AttackerWins(attack_troops, defense, am, dm) ==
    attack_troops * am > defense * dm

\* A faulty variant of WithElo without the floor of the rating.
WithEloNoFloor(attacker, target, score_a, k) ==
    LET d == calculate_elo_change(attacker.elo, target.elo, score_a, k)
    IN <<[attacker EXCEPT !.elo = @ + d[1]],
         [target EXCEPT !.elo = @ + d[2]]>>

\* The rating of both nations after a resolved combat.
WithElo(attacker, target, score_a, k) ==
    LET d == calculate_elo_change(attacker.elo, target.elo, score_a, k)
    IN <<[attacker EXCEPT !.elo = Max(EloFloor, @ + d[1])],
         [target EXCEPT !.elo = Max(EloFloor, @ + d[2])]>>

\* A faulty variant of PvpLosses whose losses are not capped by min().
PvpLossesUncapped(attack_troops, defense, target_troops, won) ==
    IF won
    THEN <<(defense * 2) \div 10, (attack_troops * 3) \div 10>>
    ELSE <<(defense * 3) \div 10, (attack_troops * 2) \div 10>>

\* The attacker's and the defender's troop loss in /pvp, lines 627-628 and
\* 658-659: <<attacker's loss, defender's loss>>.
PvpLosses(attack_troops, defense, target_troops, won) ==
    IF won
    THEN <<Min((defense * 2) \div 10, attack_troops),
           Min((attack_troops * 3) \div 10, target_troops)>>
    ELSE <<Min((defense * 3) \div 10, attack_troops),
           Min((attack_troops * 2) \div 10, defense)>>

\* A faulty variant of ConquerLosses with the coefficients of /pvp.
ConquerLossesAsBattle(attack_troops, defense, target_troops, won) ==
    IF won
    THEN <<Min((defense * 2) \div 10, attack_troops),
           Min((attack_troops * 3) \div 10, target_troops)>>
    ELSE <<Min((defense * 3) \div 10, attack_troops),
           Min((attack_troops * 2) \div 10, defense)>>

\* The same in /conquer, lines 772-773 and 806-807.
ConquerLosses(attack_troops, defense, target_troops, won) ==
    IF won
    THEN <<Min((defense * 15) \div 100, attack_troops),
           Min((attack_troops * 2) \div 10, target_troops)>>
    ELSE <<Min((defense * 2) \div 10, attack_troops),
           Min((attack_troops * 15) \div 100, defense)>>

\* A faulty variant of PvpCommand whose casualties also leave the population.
PvpCommandWithPopulation(game_data, user_id, target_nation_name, attack_troops, am, dm, k) ==
    LET check == CombatCheck(game_data, user_id, target_nation_name, attack_troops)
        attacker_nation_info ==
            get_nation_info(game_data, get_player_nation(game_data, user_id))
        target_nation_info == get_nation_info(game_data, target_nation_name)
        defense == effective_defense_troops(target_nation_info)
        won == AttackerWins(attack_troops, defense, am, dm)
        loss == PvpLosses(attack_troops, defense, target_nation_info.troops, won)
        rated == WithElo([attacker_nation_info EXCEPT !.troops = @ - loss[1],
                                                      !.population = @ - loss[1]],
                         [target_nation_info EXCEPT !.troops = @ - loss[2],
                                                    !.population = @ - loss[2]],
                         IF won THEN 1 ELSE 0, k)
    IN IF check # "ok" THEN Rejected(check, game_data)
       ELSE Done(IF won THEN "won" ELSE "lost",
                 SetNation(SetNation(game_data, rated[1]), rated[2]))

PvpCommand(game_data, user_id, target_nation_name, attack_troops, am, dm, k) ==
    LET check == CombatCheck(game_data, user_id, target_nation_name, attack_troops)
        attacker_nation_info ==
            get_nation_info(game_data, get_player_nation(game_data, user_id))
        target_nation_info == get_nation_info(game_data, target_nation_name)
        defense == effective_defense_troops(target_nation_info)
        won == AttackerWins(attack_troops, defense, am, dm)
        loss == PvpLosses(attack_troops, defense, target_nation_info.troops, won)
        rated == WithElo([attacker_nation_info EXCEPT !.troops = @ - loss[1]],
                         [target_nation_info EXCEPT !.troops = @ - loss[2]],
                         IF won THEN 1 ELSE 0, k)
    IN IF check # "ok" THEN Rejected(check, game_data)
       ELSE Done(IF won THEN "won" ELSE "lost",
                 SetNation(SetNation(game_data, rated[1]), rated[2]))

\* A faulty variant of territory_gained and territory_lost without max(1, .).
TerritoryMovedNoFloor(territory, percent) == (territory * percent) \div 100

\* Lines 774 and 808: max(1, int(territory * 0.05)) and
\* max(1, int(territory * 0.03)).
TerritoryMoved(territory, percent) == Max(1, (territory * percent) \div 100)

\* A faulty variant of LoseTerritory without the floor.
LoseTerritoryNoFloor(territory, amount) == territory - amount

\* Lines 779 and 812: the territory of the side that loses a raid.
LoseTerritory(territory, amount) == Max(1, territory - amount)

ConquerCommand(game_data, user_id, target_nation_name, attack_troops, am, dm, k) ==
    LET check == CombatCheck(game_data, user_id, target_nation_name, attack_troops)
        attacker_nation_info ==
            get_nation_info(game_data, get_player_nation(game_data, user_id))
        target_nation_info == get_nation_info(game_data, target_nation_name)
        defense == effective_defense_troops(target_nation_info)
        won == AttackerWins(attack_troops, defense, am, dm)
        loss == ConquerLosses(attack_troops, defense, target_nation_info.troops, won)
        territory_gained == TerritoryMoved(target_nation_info.territory, 5)
        territory_lost == TerritoryMoved(attacker_nation_info.territory, 3)
        rated ==
            IF won
            THEN WithElo([attacker_nation_info EXCEPT
                            !.troops = @ - loss[1],
                            !.territory = @ + territory_gained],
                         [target_nation_info EXCEPT
                            !.troops = @ - loss[2],
                            !.territory = LoseTerritory(@, territory_gained)],
                         1, k)
            ELSE WithElo([attacker_nation_info EXCEPT
                            !.troops = @ - loss[1],
                            !.territory = LoseTerritory(@, territory_lost)],
                         [target_nation_info EXCEPT
                            !.troops = @ - loss[2],
                            !.territory = @ + territory_lost],
                         0, k)
    IN IF check # "ok" THEN Rejected(check, game_data)
       ELSE Done(IF won THEN "won" ELSE "lost",
                 SetNation(SetNation(game_data, rated[1]), rated[2]))

\* A faulty variant of DeployCommand without the check against troops.
DeployCommandNoUpper(game_data, user_id, troops_to_deploy) ==
    LET player_nation_name == get_player_nation(game_data, user_id)
        player_nation_info == get_nation_info(game_data, player_nation_name)
        new_deployed == player_nation_info.deployed_troops + troops_to_deploy
    IN IF player_nation_name = None THEN Rejected("no_nation", game_data)
       ELSE IF new_deployed < 0 THEN Rejected("below_zero", game_data)
       ELSE Done("deployed",
                 SetNation(game_data,
                    [player_nation_info EXCEPT !.deployed_troops = new_deployed]))

\* ----------------------------------------------------------------- /deploy
DeployCommand(game_data, user_id, troops_to_deploy) ==
    LET player_nation_name == get_player_nation(game_data, user_id)
        player_nation_info == get_nation_info(game_data, player_nation_name)
        new_deployed == player_nation_info.deployed_troops + troops_to_deploy
    IN IF player_nation_name = None THEN Rejected("no_nation", game_data)
       ELSE IF new_deployed < 0 THEN Rejected("below_zero", game_data)
       ELSE IF new_deployed > player_nation_info.troops
       THEN Rejected("above_troops", game_data)
       ELSE Done("deployed",
                 SetNation(game_data,
                    [player_nation_info EXCEPT !.deployed_troops = new_deployed]))

\* --------------------------------------------------------------- /transfer
\* A faulty variant of TransferCommand that takes the troops and does not
\* give them.
TransferCommandNoCredit(game_data, user_id, target_user_id, transfer_amount) ==
    LET player_nation_name == get_player_nation(game_data, user_id)
        player_nation_info == get_nation_info(game_data, player_nation_name)
        target_player_info == get_player_info(game_data, target_user_id)
    IN IF player_nation_name = None THEN Rejected("no_nation", game_data)
       ELSE IF player_nation_info.leader # user_id
       THEN Rejected("not_leader", game_data)
       ELSE IF target_player_info = NoPlayer
               \/ target_player_info.nation # player_nation_name
       THEN Rejected("not_member", game_data)
       ELSE IF transfer_amount <= 0 THEN Rejected("not_positive", game_data)
       ELSE IF player_nation_info.troops < transfer_amount
       THEN Rejected("insufficient", game_data)
       ELSE Done("transferred",
                 SetNation(game_data,
                    [player_nation_info EXCEPT !.troops = @ - transfer_amount]))

TransferCommand(game_data, user_id, target_user_id, transfer_amount) ==
    LET player_nation_name == get_player_nation(game_data, user_id)
        player_nation_info == get_nation_info(game_data, player_nation_name)
        target_player_info == get_player_info(game_data, target_user_id)
        taken == SetNation(game_data,
                    [player_nation_info EXCEPT !.troops = @ - transfer_amount])
        target_nation_info == get_nation_info(taken, target_player_info.nation)
    IN IF player_nation_name = None THEN Rejected("no_nation", game_data)
       ELSE IF player_nation_info.leader # user_id
       THEN Rejected("not_leader", game_data)
       ELSE IF target_player_info = NoPlayer
               \/ target_player_info.nation # player_nation_name
       THEN Rejected("not_member", game_data)
       ELSE IF transfer_amount <= 0 THEN Rejected("not_positive", game_data)
       ELSE IF player_nation_info.troops < transfer_amount
       THEN Rejected("insufficient", game_data)
       ELSE Done("transferred",
                 IF target_nation_info # NoNation
                 THEN SetNation(taken,
                        [target_nation_info EXCEPT !.troops = @ + transfer_amount])
                 ELSE taken)

\* ---------------------------------------------------------------- /appoint
\* RANK_NAMES: the names of the eleven RANKS, from level 11 down to level 1.
RANK_NAMES ==
    {"Marshal", "General", "LieutenantGeneral", "MajorGeneral",
     "SeniorColonel", "Colonel", "LieutenantColonel", "Major",
     "Captain", "Lieutenant", "SecondLieutenant"}

\* A faulty variant of AppointCommand that any member may use.
AppointCommandAnyMember(game_data, user_id, target_user_id, new_rank) ==
    LET player_nation_name == get_player_nation(game_data, user_id)
        target_player_info == get_player_info(game_data, target_user_id)
    IN IF new_rank \notin RANK_NAMES THEN Rejected("unknown_rank", game_data)
       ELSE IF player_nation_name = None THEN Rejected("no_nation", game_data)
       ELSE IF target_player_info = NoPlayer
               \/ target_player_info.nation # player_nation_name
       THEN Rejected("not_member", game_data)
       ELSE Done("appointed",
                 [game_data EXCEPT !.players[target_user_id].rank = new_rank])

AppointCommand(game_data, user_id, target_user_id, new_rank) ==
    LET player_nation_name == get_player_nation(game_data, user_id)
        player_nation_info == get_nation_info(game_data, player_nation_name)
        target_player_info == get_player_info(game_data, target_user_id)
    IN IF new_rank \notin RANK_NAMES THEN Rejected("unknown_rank", game_data)
       ELSE IF player_nation_name = None THEN Rejected("no_nation", game_data)
       ELSE IF player_nation_info.leader # user_id
       THEN Rejected("not_leader", game_data)
       ELSE IF target_player_info = NoPlayer
               \/ target_player_info.nation # player_nation_name
       THEN Rejected("not_member", game_data)
       ELSE Done("appointed",
                 [game_data EXCEPT !.players[target_user_id].rank = new_rank])

\* ----------------------------------------------------------- /set_ideology
SetIdeologyCommand(game_data, user_id, new_ideology) ==
    LET player_nation_name == get_player_nation(game_data, user_id)
        player_nation_info == get_nation_info(game_data, player_nation_name)
    IN IF new_ideology \notin IDEOLOGIES
       THEN Rejected("unknown_ideology", game_data)
       ELSE IF player_nation_name = None THEN Rejected("no_nation", game_data)
       ELSE IF player_nation_info.leader # user_id
       THEN Rejected("not_leader", game_data)
       ELSE Done("ideology_set",
                 SetNation(game_data,
                    [player_nation_info EXCEPT !.ideology = new_ideology]))

\* ------------------------------------------------------------ random events
\* RANDOM_EVENTS: the field after "nation." and the multiplier in hundredths.
RANDOM_EVENTS ==
    <<[effect |-> "troops", multiplier |-> 110],
      [effect |-> "troops", multiplier |-> 90],
      [effect |-> "troops", multiplier |-> 115],
      [effect |-> "troops", multiplier |-> 85],
      [effect |-> "territory", multiplier |-> 105],
      [effect |-> "territory", multiplier |-> 95],
      [effect |-> "population", multiplier |-> 110],
      [effect |-> "population", multiplier |-> 90]>>

\* event_interval_min and event_interval_max (60 and 120 minutes by default),
\* in the clock's unit.
min_interval == 2

max_interval == 3

\* The values up to 200 whose double product with 1.15 lies below the exact
\* product, an integer: 100 * 1.15 is 114.99999999999999.
FloatShortfall == {100, 180, 200}

\* int(old_value * multiplier) for a multiplier in hundredths and an
\* old_value up to 200.
int_product(old_value, multiplier) ==
    (old_value * multiplier) \div 100
        - (IF multiplier = 115 /\ old_value \in FloatShortfall THEN 1 ELSE 0)

\* max(1, int(old_value * multiplier)) written to target_nation_info[stat_key].
ApplyEvent(target_nation_info, event) ==
    LET new_value(old_value) == Max(1, int_product(old_value, event.multiplier))
    IN CASE event.effect = "troops" ->
              [target_nation_info EXCEPT !.troops = new_value(@)]
         [] event.effect = "territory" ->
              [target_nation_info EXCEPT !.territory = new_value(@)]
         [] event.effect = "population" ->
              [target_nation_info EXCEPT !.population = new_value(@)]

\* A faulty variant of RandomEventAction that does not wait for the interval.
RandomEventActionAnyTime(game_data, current_time, interval, target_nation_name, event) ==
    IF DOMAIN game_data.nations = {}
    THEN Rejected("no_nations", game_data)
    ELSE Done("event",
              [SetNation(game_data,
                    ApplyEvent(game_data.nations[target_nation_name], event))
               EXCEPT !.last_event_time = current_time])

\* interval is random.randint(min_interval, max_interval); target_nation_name
\* and event are the two random.choice draws.
RandomEventAction(game_data, current_time, interval, target_nation_name, event) ==
    IF current_time < game_data.last_event_time + interval
    THEN Rejected("too_early", game_data)
    ELSE IF DOMAIN game_data.nations = {}
    THEN Rejected("no_nations", game_data)
    ELSE Done("event",
              [SetNation(game_data,
                    ApplyEvent(game_data.nations[target_nation_name], event))
               EXCEPT !.last_event_time = current_time])

\* ----------------------------------------------------------------- actions
\* No save has failed.
NoFault == [kind |-> "none", reported |-> FALSE]

Idle == [busy |-> FALSE, data |-> default_data, base |-> NoFile]

Procs == {1, 2}

NoneBusy == \A p \in Procs : ~pending[p].busy

\* A handler run from its load to its save with nothing in between.
Run(r) ==
    /\ NoneBusy
    /\ r.saved => now < horizon
    /\ disk' = IF r.saved THEN save_game_data(r.data) ELSE disk
    /\ now' = IF r.saved THEN now + 1 ELSE now
    /\ UNCHANGED <<pending, k_factor, horizon, fault>>

Join(user_id, nation_name, ideology) ==
    Run(JoinCommand(load_game_data(disk), user_id, nation_name, ideology))

Ally(user_id, ally_nation_name) ==
    Run(AllyCommand(load_game_data(disk), user_id, ally_nation_name))

Withdraw(user_id, ally_nation_name) ==
    Run(WithdrawCommand(load_game_data(disk), user_id, ally_nation_name))

Pvp(user_id, target_nation_name, attack_troops, am, dm) ==
    Run(PvpCommand(load_game_data(disk), user_id, target_nation_name,
                          attack_troops, am, dm, k_factor))

\* The model stops raiding once a nation holds MaxTerritory.
Conquer(user_id, target_nation_name, attack_troops, am, dm) ==
    /\ \A n \in DOMAIN disk.nations : disk.nations[n].territory < MaxTerritory
    /\ Run(ConquerCommand(load_game_data(disk), user_id,
                target_nation_name, attack_troops, am, dm, k_factor))

Deploy(user_id, troops_to_deploy) ==
    Run(DeployCommand(load_game_data(disk), user_id, troops_to_deploy))

Transfer(user_id, target_user_id, transfer_amount) ==
    Run(TransferCommand(load_game_data(disk), user_id,
                                    target_user_id, transfer_amount))

\* random.choice(list(game_data["nations"].keys())) draws among the nations
\* that exist; the draw is not reached when there is none.
Drawable(game_data) ==
    IF DOMAIN game_data.nations = {} THEN {None} ELSE DOMAIN game_data.nations

RandomEvent(interval, target_nation_name, e) ==
    /\ target_nation_name \in Drawable(load_game_data(disk))
    /\ Run(RandomEventAction(load_game_data(disk), now, interval,
                                      target_nation_name, RANDOM_EVENTS[e]))

\* Time passes.
Tick ==
    /\ NoneBusy
    /\ now < horizon
    /\ now' = now + 1
    /\ UNCHANGED <<disk, pending, k_factor, horizon, fault>>

\* ------------------------------------------------- overlapping handlers
\* /join, /pvp, /conquer, /ally and /withdraw await send_text or the public
\* broadcast between the change of their copy of the world and its save
\* (lines 451, 649, 797, 921, 1011): other handlers run in between.
Begin(p, r) ==
    /\ ~pending[p].busy
    /\ r.saved
    /\ pending' = [pending EXCEPT ![p] = [busy |-> TRUE, data |-> r.data, base |-> disk]]
    /\ UNCHANGED <<disk, now, k_factor, horizon, fault>>

\* A faulty variant of Commit that writes the handler's copy over the file
\* but for the nations, which it leaves as they are in the file.
CommitKeepNations(p) ==
    /\ pending[p].busy
    /\ now < horizon
    /\ disk' = [save_game_data(pending[p].data) EXCEPT !.nations = disk.nations]
    /\ pending' = [pending EXCEPT ![p] = Idle]
    /\ now' = now + 1
    /\ UNCHANGED <<k_factor, horizon, fault>>

\* The await returns and the handler writes its copy.
Commit(p) ==
    /\ pending[p].busy
    /\ now < horizon
    /\ disk' = save_game_data(pending[p].data)
    /\ pending' = [pending EXCEPT ![p] = Idle]
    /\ now' = now + 1
    /\ UNCHANGED <<k_factor, horizon, fault>>

\* A faulty variant of RunNow that awaits before the save.
RunAfterAwait(r) ==
    \E p \in Procs : Begin(p, r)

\* /deploy, /transfer, /appoint, /set_ideology and the event action save
\* before their first await: every await between their load and their save
\* is followed by a return.
RunNow(r) ==
    /\ r.saved
    /\ now < horizon
    /\ disk' = save_game_data(r.data)
    /\ now' = now + 1
    /\ UNCHANGED <<pending, k_factor, horizon, fault>>

BeginJoin(p, user_id, nation_name, ideology) ==
    Begin(p, JoinCommand(load_game_data(disk), user_id, nation_name, ideology))

BeginAlly(p, user_id, ally_nation_name) ==
    Begin(p, AllyCommand(load_game_data(disk), user_id, ally_nation_name))

BeginWithdraw(p, user_id, ally_nation_name) ==
    Begin(p, WithdrawCommand(load_game_data(disk), user_id, ally_nation_name))

BeginPvp(p, user_id, target_nation_name, attack_troops, am, dm) ==
    Begin(p, PvpCommand(load_game_data(disk), user_id, target_nation_name,
                        attack_troops, am, dm, k_factor))

BeginConquer(p, user_id, target_nation_name, attack_troops, am, dm) ==
    Begin(p, ConquerCommand(load_game_data(disk), user_id, target_nation_name,
                            attack_troops, am, dm, k_factor))

DeployNow(user_id, troops_to_deploy) ==
    RunNow(DeployCommand(load_game_data(disk), user_id, troops_to_deploy))

TransferNow(user_id, target_user_id, transfer_amount) ==
    RunNow(TransferCommand(load_game_data(disk), user_id,
                           target_user_id, transfer_amount))

AppointNow(user_id, target_user_id, new_rank) ==
    RunNow(AppointCommand(load_game_data(disk), user_id, target_user_id, new_rank))

SetIdeologyNow(user_id, new_ideology) ==
    RunNow(SetIdeologyCommand(load_game_data(disk), user_id, new_ideology))

RandomEventNow(interval, target_nation_name, e) ==
    /\ target_nation_name \in Drawable(load_game_data(disk))
    /\ RunNow(RandomEventAction(load_game_data(disk), now, interval,
                                target_nation_name, RANDOM_EVENTS[e]))

Init ==
    /\ disk = NoFile
    /\ pending = [p \in Procs |-> Idle]
    /\ now = 0
    /\ k_factor = 0
    /\ horizon = MaxTime
    /\ fault = NoFault

Next ==
    \/ \E u \in Users, n \in Names, i \in IDEOLOGIES : Join(u, n, i)
    \/ \E u \in Users, n \in Names : Ally(u, n)
    \/ \E u \in Users, n \in Names : Withdraw(u, n)
    \/ \E u \in Users, n \in Names, k \in AttackChoices, m \in Multipliers :
            Pvp(u, n, k, m[1], m[2])
    \/ \E u \in Users, n \in Names, k \in AttackChoices, m \in Multipliers :
            Conquer(u, n, k, m[1], m[2])
    \/ \E u \in Users, k \in DeployChoices : Deploy(u, k)
    \/ \E u, t \in Users, k \in TransferChoices : Transfer(u, t, k)
    \/ \E i \in min_interval .. max_interval, n \in Names \cup {None},
          e \in DOMAIN RANDOM_EVENTS : RandomEvent(i, n, e)
    \/ Tick

\* The handlers one at a time.
Spec == Init /\ [][Next]_vars

\* Combat between two nations of one player each: u1 in A, u2 in B.
InitCombat ==
    /\ disk = NoFile
    /\ pending = [p \in Procs |-> Idle]
    /\ now = 0
    /\ k_factor = 0
    /\ horizon = MaxTimeCombat
    /\ fault = NoFault

NextCombat ==
    \/ \E i \in IDEOLOGIES : Join("u1", "A", i)
    \/ \E i \in IDEOLOGIES : Join("u2", "B", i)
    \/ \E u \in Users, n \in Names, m \in Multipliers :
            Pvp(u, n, initial_troops, m[1], m[2])
    \/ \E u \in Users, n \in Names, m \in Multipliers :
            Conquer(u, n, initial_troops, m[1], m[2])
    \/ \E u \in Users, k \in DeployChoices : Deploy(u, k)
    \/ \E u \in Users : Transfer(u, u, 1)
    \/ \E i \in min_interval .. max_interval, n \in Names \cup {None},
          e \in DOMAIN RANDOM_EVENTS : RandomEvent(i, n, e)

SpecCombat == InitCombat /\ [][NextCombat]_vars

\* The handlers overlapping at their awaits.
InitOverlap ==
    /\ disk = NoFile
    /\ pending = [p \in Procs |-> Idle]
    /\ now = 0
    /\ k_factor = 0
    /\ horizon = MaxTimeOverlap
    /\ fault = NoFault

NextOverlap ==
    \/ \E p \in Procs, u \in Users, n \in Names, i \in IDEOLOGIES :
            BeginJoin(p, u, n, i)
    \/ \E p \in Procs, u \in Users, n \in Names : BeginAlly(p, u, n)
    \/ \E p \in Procs, u \in Users, n \in Names : BeginWithdraw(p, u, n)
    \/ \E p \in Procs, u \in Users, n \in Names, m \in Multipliers :
            BeginPvp(p, u, n, initial_troops, m[1], m[2])
    \/ \E p \in Procs, u \in Users, n \in Names, m \in Multipliers :
            BeginConquer(p, u, n, initial_troops, m[1], m[2])
    \/ \E p \in Procs : Commit(p)
    \/ \E u \in Users, k \in DeployChoices : DeployNow(u, k)

SpecOverlap == InitOverlap /\ [][NextOverlap]_vars

\* -------------------------------------------------------------- properties
\* The world a handler reads when it starts now.
World == load_game_data(disk)

\* Largest troop count the pure loss computations are examined for.
MaxAttack == 8

\* C1: no update is lost when two requests overlap.  No handler deletes a
\* player record, so the save of a request must keep every player record the
\* file holds at that moment; a save that drops one has overwritten the join
\* of an overlapping request.
C1_NoLostUpdate ==
    [][\A p \in Procs :
          Commit(p) => DOMAIN disk.players \subseteq DOMAIN disk'.players]_vars

\* C2: in every state reached by sequentially handled requests, every nation
\* has 0 <= deployed_troops <= troops.
C2_DeployedWithinTroops ==
    \A n \in DOMAIN World.nations :
        /\ 0 <= World.nations[n].deployed_troops
        /\ World.nations[n].deployed_troops <= World.nations[n].troops

\* The troops of every nation of a world are non-negative.
TroopsNonNegative(game_data) ==
    \A n \in DOMAIN game_data.nations : game_data.nations[n].troops >= 0

\* C3: a Battle or a Raid never takes more troops from a nation than it had
\* before the combat, so troops never go below zero: in every reachable
\* world, for every attack the checks let through and every draw of the two
\* multipliers; and for every troop count up to MaxAttack, whatever the
\* garrison of the defender.
C3_CombatLossesBounded ==
    /\ TroopsNonNegative(World)
    /\ \A u \in Users, t \in Names, a \in 1..MaxAttack, m \in Multipliers :
          /\ TroopsNonNegative(PvpCommand(World, u, t, a, m[1], m[2], k_factor).data)
          /\ TroopsNonNegative(ConquerCommand(World, u, t, a, m[1], m[2], k_factor).data)
    /\ \A a \in 1..MaxAttack, t \in 0..MaxAttack, m \in Multipliers :
       \A d \in {0, t, MaxAttack} :
          LET defense == effective_defense_troops(
                             [troops |-> t, deployed_troops |-> d])
              won == AttackerWins(a, defense, m[1], m[2])
              pvp == PvpLosses(a, defense, t, won)
              conquer == ConquerLosses(a, defense, t, won)
          IN /\ pvp[1] >= 0 /\ pvp[1] <= a
             /\ pvp[2] >= 0 /\ pvp[2] <= t
             /\ conquer[1] >= 0 /\ conquer[1] <= a
             /\ conquer[2] >= 0 /\ conquer[2] <= t

\* A defender whose garrison outnumbers its troops and that combat has
\* brought down to no troops at all.
C3_Witness ==
    \E n \in DOMAIN World.nations :
        /\ World.nations[n].troops = 0
        /\ World.nations[n].deployed_troops > 0

\* C4: every player record with a nation names an existing nation whose
\* members list contains the player.
C4_PlayerNationExists ==
    \A u \in DOMAIN World.players :
        LET n == World.players[u].nation
        IN n # None =>
             /\ n \in DOMAIN World.nations
             /\ u \in Range(World.nations[n].members)

\* A player who has moved from the nation they led to another one.
C4_Witness ==
    \E u \in DOMAIN World.players, n \in DOMAIN World.nations :
        /\ World.players[u].nation \notin {n, None}
        /\ World.nations[n].leader = None
        /\ World.nations[n].members = <<>>

\* The number of places of a list that hold x.
Count(l, x) == Cardinality({i \in DOMAIN l : l[i] = x})

\* C5: a player is in the members list of at most one nation, and at most
\* once in it; a join of another nation takes the player out of the members
\* of the nation they leave.
C5_OneNationPerPlayer ==
    /\ \A u \in Users :
          /\ Cardinality({n \in DOMAIN World.nations :
                             u \in Range(World.nations[n].members)}) <= 1
          /\ \A n \in DOMAIN World.nations :
                Count(World.nations[n].members, u) <= 1
    /\ \A u \in Users, n \in Names, i \in IDEOLOGIES :
          LET old == get_player_nation(World, u)
              r == JoinCommand(World, u, n, i)
          IN (r.saved /\ old # None) =>
                u \notin Range(r.data.nations[old].members)

\* A nation that one of its two members has left for another nation.
C5_Witness ==
    \E u \in DOMAIN World.players, n \in DOMAIN World.nations :
        /\ World.players[u].nation \notin {n, None}
        /\ World.nations[n].leader = None
        /\ World.nations[n].members # <<>>

\* C6: the leader of a nation, when it has one, is one of its members; the
\* leader field of a nation is cleared when its leader joins another nation.
C6_LeaderIsMember ==
    /\ \A n \in DOMAIN World.nations :
          World.nations[n].leader # None =>
              World.nations[n].leader \in Range(World.nations[n].members)
    /\ \A u \in Users, n \in Names, i \in IDEOLOGIES :
          LET old == get_player_nation(World, u)
              r == JoinCommand(World, u, n, i)
          IN (r.saved /\ old # None /\ World.nations[old].leader = u) =>
                r.data.nations[old].leader = None

\* A nation whose first leader left and came back as its leader behind a
\* member who stayed.
C6_Witness ==
    \E n \in DOMAIN World.nations :
        /\ Len(World.nations[n].members) = 2
        /\ World.nations[n].leader = World.nations[n].members[2]

\* C7: every alliance is a set of exactly two distinct nations that exist,
\* and no pair is recorded twice, in the document as in the loaded world.
C7_AlliancesArePairs ==
    /\ \A i \in DOMAIN disk.alliances :
          /\ Len(disk.alliances[i]) = 2
          /\ disk.alliances[i][1] # disk.alliances[i][2]
          /\ Range(disk.alliances[i]) \subseteq DOMAIN disk.nations
          /\ \A j \in DOMAIN disk.alliances :
                i # j => Range(disk.alliances[i]) # Range(disk.alliances[j])
    /\ \A alliance \in World.alliances :
          /\ Cardinality(alliance) = 2
          /\ alliance \subseteq DOMAIN World.nations

\* An alliance is on record.
C7_Witness == Len(disk.alliances) = 1

\* C8: are_allies gives the same answer for (A, B) and for (B, A).
C8_AreAlliesSymmetric ==
    \A a \in Names, b \in Names :
        are_allies(World, a, b) = are_allies(World, b, a)

\* Two allied nations, asked about in both orders.
C8_Witness ==
    \E a \in Names, b \in Names :
        a # b /\ are_allies(World, a, b) /\ are_allies(World, b, a)

\* C9: are_allies(A, B) is true exactly when the pair {A, B} is in the
\* alliance set, so that are_allies(A, A) is false.
C9_AreAlliesIffPair ==
    \A a \in Names, b \in Names :
        are_allies(World, a, b) <=> ({a, b} \in World.alliances)

\* C10: while nations X and Y are allied, every /pvp and every /conquer of a
\* member of X against Y is refused with the allied reason and does not
\* reach the save, whatever the troops sent and the multipliers drawn.
C10_AlliesCannotFight ==
    \A u \in Users, t \in Names, a \in 0..MaxAttack, m \in Multipliers :
        LET x == get_player_nation(World, u)
            pvp == PvpCommand(World, u, t, a, m[1], m[2], k_factor)
            conquer == ConquerCommand(World, u, t, a, m[1], m[2], k_factor)
        IN (x # None /\ x # t /\ {x, t} \in World.alliances) =>
              /\ pvp.reason = "allied" /\ ~pvp.saved /\ pvp.data = World
              /\ conquer.reason = "allied" /\ ~conquer.saved
              /\ conquer.data = World

\* A member of an allied nation with the troops for an attack on the ally.
C10_Witness ==
    \E u \in Users, t \in Names :
        LET x == get_player_nation(World, u)
        IN /\ x # None /\ x # t /\ {x, t} \in World.alliances
           /\ World.nations[x].troops >= initial_troops
           /\ PvpCommand(World, u, t, initial_troops, 120, 80, k_factor).reason
                 = "allied"
\* C11: /ally between two nations that are allied already is refused, in
\* whichever order the alliance was proposed, and /withdraw between two
\* nations that are not allied is refused; neither reaches the save and the
\* alliance set stays as it is.
C11_AllianceIdempotent ==
    \A u \in Users, t \in Names :
        LET x == get_player_nation(World, u)
            ally == AllyCommand(World, u, t)
            withdraw == WithdrawCommand(World, u, t)
        IN /\ (x # None /\ x # t /\ {x, t} \in World.alliances) =>
                /\ ally.reason = "already_allied" /\ ~ally.saved
                /\ ally.data.alliances = World.alliances
           /\ (x # None /\ {x, t} \notin World.alliances) =>
                /\ ~withdraw.saved
                /\ withdraw.data.alliances = World.alliances
                /\ (x # t /\ t \in DOMAIN World.nations) =>
                      withdraw.reason = "not_allied"

\* Two allied nations whose leaders both propose the alliance again.
C11_Witness ==
    /\ World.alliances # {}
    /\ \A alliance \in World.alliances : \A x \in alliance, t \in alliance :
          x # t =>
             AllyCommand(World, World.nations[x].leader, t).reason
                 = "already_allied"
\* ------------------------------------------------- /join and /deploy only
\* Every amount a /deploy can carry that the troops of a nation tell apart.
DeployRange == -(initial_troops + 1) .. (initial_troops + 1)

NextDeploy ==
    \/ \E u \in Users, n \in Names, i \in IDEOLOGIES : Join(u, n, i)
    \/ \E u \in Users, k \in DeployRange : Deploy(u, k)

SpecDeploy == Init /\ [][NextDeploy]_vars

\* C12: /deploy of delta by a member of a nation reaches the save exactly
\* when 0 <= deployed_troops + delta <= troops, and then deployed_troops is
\* raised by delta and nothing else changes; otherwise the world it leaves is
\* the world it found.  So after every request of a run made of /join and
\* /deploy only, 0 <= deployed_troops <= troops in every nation.
C12_DeployWithinBounds ==
    /\ \A n \in DOMAIN World.nations :
          /\ 0 <= World.nations[n].deployed_troops
          /\ World.nations[n].deployed_troops <= World.nations[n].troops
    /\ \A u \in Users, delta \in DeployRange :
          LET x == get_player_nation(World, u)
              r == DeployCommand(World, u, delta)
              new_deployed == World.nations[x].deployed_troops + delta
              fits == 0 <= new_deployed /\ new_deployed <= World.nations[x].troops
          IN x # None =>
               /\ r.saved <=> fits
               /\ fits => r.data =
                    [World EXCEPT !.nations[x].deployed_troops = new_deployed]
               /\ ~fits => r.data = World

\* A nation whose troops are all deployed: withdrawing one more than that is
\* refused, withdrawing all of them leaves none deployed.
C12_Witness ==
    \E u \in Users :
        LET x == get_player_nation(World, u)
        IN /\ x # None
           /\ World.nations[x].troops = initial_troops
           /\ World.nations[x].deployed_troops = initial_troops
           /\ ~DeployCommand(World, u, -(initial_troops + 1)).saved
           /\ DeployCommand(World, u, -initial_troops)
                 .data.nations[x].deployed_troops = 0
\* The territory of every nation of a world is at least 1.
TerritoryAtLeastOne(game_data) ==
    \A n \in DOMAIN game_data.nations : game_data.nations[n].territory >= 1

\* C13: the territory of every nation is at least 1 in every reachable
\* world, and in the world every /conquer, won or lost, and every random
\* event leaves behind.
C13_TerritoryFloor ==
    /\ TerritoryAtLeastOne(World)
    /\ \A u \in Users, t \in Names, a \in 1..MaxAttack, m \in Multipliers :
          TerritoryAtLeastOne(
              ConquerCommand(World, u, t, a, m[1], m[2], k_factor).data)
    /\ \A t \in DOMAIN World.nations, e \in DOMAIN RANDOM_EVENTS :
          TerritoryAtLeastOne(
              RandomEventAction(World, now, 0, t, RANDOM_EVENTS[e]).data)

\* A nation raided twice: its territory stopped at 1 while the raider took a
\* unit both times.
C13_Witness ==
    \E n \in DOMAIN World.nations, w \in DOMAIN World.nations :
        /\ World.nations[n].territory = 1
        /\ World.nations[w].territory = initial_territory + 2
\* ------------------------------------------------ combat with rated stakes
\* A game.elo_k_factor large enough for one lost combat between equals to
\* take a nation from its first rating below the floor, and the time the
\* clock of these runs stops at.
KFactor == 4000

MaxTimeRating == 7

InitRating ==
    /\ disk = NoFile
    /\ pending = [p \in Procs |-> Idle]
    /\ now = 0
    /\ k_factor = KFactor
    /\ horizon = MaxTimeRating
    /\ fault = NoFault

NextRating ==
    \/ \E i \in IDEOLOGIES : Join("u1", "A", i)
    \/ \E i \in IDEOLOGIES : Join("u2", "B", i)
    \/ \E u \in Users, n \in Names, m \in Multipliers :
            Pvp(u, n, initial_troops, m[1], m[2])
    \/ \E u \in Users, n \in Names, m \in Multipliers :
            Conquer(u, n, initial_troops, m[1], m[2])

SpecRating == InitRating /\ [][NextRating]_vars

\* The rating of every nation of a world is at least 100.
RatingAtLeast100(game_data) ==
    \A n \in DOMAIN game_data.nations : game_data.nations[n].elo >= 100

\* C14: the rating of every nation is at least 100 in every reachable world
\* and in the world every /pvp and /conquer leaves behind, however many
\* combats the nation has lost before.
C14_RatingFloor ==
    /\ RatingAtLeast100(World)
    /\ \A u \in Users, t \in Names, a \in 1..MaxAttack, m \in Multipliers :
          /\ RatingAtLeast100(
                PvpCommand(World, u, t, a, m[1], m[2], k_factor).data)
          /\ RatingAtLeast100(
                ConquerCommand(World, u, t, a, m[1], m[2], k_factor).data)

\* A nation whose rating has been stopped at the floor.
C14_Witness ==
    \E n \in DOMAIN World.nations :
        /\ World.nations[n].elo = 100
        /\ k_factor * 5000 > (InitialElo - 100) * 10000
\* C15: after every /pvp and every /conquer, won or lost, the troops of the
\* attacker and of the defender are at least 1.
C15_CombatTroopsFloor ==
    \A u \in Users, t \in Names, a \in 1..MaxAttack, m \in Multipliers :
        LET pvp == PvpCommand(World, u, t, a, m[1], m[2], k_factor)
            conquer == ConquerCommand(World, u, t, a, m[1], m[2], k_factor)
            x == get_player_nation(World, u)
        IN /\ pvp.saved =>
                pvp.data.nations[x].troops >= 1 /\ pvp.data.nations[t].troops >= 1
           /\ conquer.saved =>
                /\ conquer.data.nations[x].troops >= 1
                /\ conquer.data.nations[t].troops >= 1
\* ------------------------------------------------------------ failing saves
\* What a failing _save_game_data leaves in the file: open() raised and the
\* file is as it was, or json.dump stopped part-way in the truncated file.
save_failure_outcomes(file) == {file, Torn}

\* _save_game_data catches every Exception itself and prints it (lines
\* 351-352): nothing is raised to the handler.
save_raises == FALSE

\* The except clause around the handler's call of _save_game_data (lines
\* 688-693) sends the failure message and returns False when the call raises.
handler_reports(raised) == raised

\* The write of a handler fails with an IOError.
SaveError(r) ==
    /\ NoneBusy
    /\ r.saved
    /\ now < horizon
    /\ \E file \in save_failure_outcomes(disk) : disk' = file
    /\ now' = now + 1
    /\ fault' = [kind |-> "save_error", reported |-> handler_reports(save_raises)]
    /\ UNCHANGED <<pending, k_factor, horizon>>

\* The process stops while a handler is in _save_game_data: before open(),
\* inside json.dump, or after the file is closed.
CrashInSave(r) ==
    /\ NoneBusy
    /\ r.saved
    /\ now < horizon
    /\ disk' \in {disk, Torn, save_game_data(r.data)}
    /\ now' = now + 1
    /\ fault' = [kind |-> "crash", reported |-> FALSE]
    /\ UNCHANGED <<pending, k_factor, horizon>>

MaxTimeFault == 4

InitFault ==
    /\ disk = NoFile
    /\ pending = [p \in Procs |-> Idle]
    /\ now = 0
    /\ k_factor = 0
    /\ horizon = MaxTimeFault
    /\ fault = NoFault

NextFault ==
    \/ \E u \in Users, n \in Names, i \in IDEOLOGIES : Join(u, n, i)
    \/ \E u \in Users, k \in DeployChoices : Deploy(u, k)
    \/ \E u \in Users, n \in Names, i \in IDEOLOGIES :
          SaveError(JoinCommand(load_game_data(disk), u, n, i))
    \/ \E u \in Users, k \in DeployChoices :
          SaveError(DeployCommand(load_game_data(disk), u, k))
    \/ \E u \in Users, n \in Names, i \in IDEOLOGIES :
          CrashInSave(JoinCommand(load_game_data(disk), u, n, i))
    \/ \E u \in Users, k \in DeployChoices :
          CrashInSave(DeployCommand(load_game_data(disk), u, k))

SpecFault == InitFault /\ [][NextFault]_vars

\* C16: a save is atomic with respect to crashes: the file always holds a
\* complete document, the previous one or the new one, so that a load of an
\* existing file never falls back to the empty default world.
C16_SaveAtomic ==
    disk.exists => (disk.complete /\ World # default_data)

\* C17: a handler whose save failed tells its caller: it does not return
\* success while the file still holds the state from before the request.
C17_SaveFailureReported ==
    fault.kind = "save_error" => fault.reported
\* ------------------------------------------------------- save, then load
\* Four nations, each led by its only member, under every set of alliances
\* between them: the copy of the world a handler is about to save.
FourNames == {"A", "B", "C", "D"}

LeaderOf == [n \in FourNames |->
                CASE n = "A" -> "u1" [] n = "B" -> "u2"
                  [] n = "C" -> "u3" [] n = "D" -> "u4"]

Pairs == {pair \in SUBSET FourNames : Cardinality(pair) = 2}

MaxEventTime == 1

FourNationWorld(alliances, last_event_time) ==
    [players |-> [u \in {LeaderOf[n] : n \in FourNames} |->
                    [user_id |-> u,
                     nation |-> CHOOSE n \in FourNames : LeaderOf[n] = u,
                     rank |-> Soldier]],
     nations |-> [n \in FourNames |->
                    [name |-> n,
                     troops |-> initial_troops,
                     territory |-> initial_territory,
                     population |-> initial_population,
                     elo |-> InitialElo,
                     leader |-> LeaderOf[n],
                     members |-> <<LeaderOf[n]>>,
                     ideology |-> CHOOSE i \in IDEOLOGIES : TRUE,
                     deployed_troops |-> 0]],
     alliances |-> alliances,
     last_event_time |-> last_event_time]

InitRoundTrip ==
    /\ disk = NoFile
    /\ \E alliances \in SUBSET Pairs, t \in 0..MaxEventTime :
          pending = [p \in Procs |->
                       IF p = 1
                       THEN [busy |-> TRUE,
                             data |-> FourNationWorld(alliances, t),
                             base |-> NoFile]
                       ELSE Idle]
    /\ now = 0
    /\ k_factor = 0
    /\ horizon = 1
    /\ fault = NoFault

NextRoundTrip == \E p \in Procs : Commit(p)

SpecRoundTrip == InitRoundTrip /\ [][NextRoundTrip]_vars

\* A world comes back from _save_game_data and _load_game_data with the same
\* players, nations and last_event_time and the same answer of are_allies
\* for every two nations.
SameAfterSaveAndLoad(game_data) ==
    LET back == load_game_data(save_game_data(game_data))
    IN /\ back.players = game_data.players
       /\ back.nations = game_data.nations
       /\ back.last_event_time = game_data.last_event_time
       /\ \A a \in FourNames, b \in FourNames :
             are_allies(back, a, b) = are_allies(game_data, a, b)

\* C18: saving a world and loading it again gives the same players, nations
\* and last_event_time and the same are_allies for every pair of nations,
\* for every set of alliances, the empty one included: for the copy a
\* handler is about to save, and for the world read from what it saved.
C18_SaveLoadIdentity ==
    /\ \A p \in Procs :
          pending[p].busy => SameAfterSaveAndLoad(pending[p].data)
    /\ SameAfterSaveAndLoad(World)

\* The world with the alliances {A, B} and {C, D} has been saved and read
\* back: allied within both pairs in both orders, not across them.
C18_Witness ==
    /\ disk.exists
    /\ Len(disk.alliances) = 2
    /\ are_allies(World, "A", "B") /\ are_allies(World, "B", "A")
    /\ are_allies(World, "C", "D") /\ are_allies(World, "D", "C")
    /\ \A a \in {"A", "B"}, c \in {"C", "D"} :
          ~are_allies(World, a, c) /\ ~are_allies(World, c, a)
\* C19: the event action run at a time before last_event_time + min_interval,
\* or in a world without nations, produces no event, changes nothing and
\* does not reach the save, whatever interval, nation and event are drawn.
C19_EventNoOp ==
    \A interval \in min_interval .. max_interval, t \in Drawable(World),
       e \in DOMAIN RANDOM_EVENTS :
        LET r == RandomEventAction(World, now, interval, t, RANDOM_EVENTS[e])
        IN (now < World.last_event_time + min_interval
               \/ DOMAIN World.nations = {}) =>
              /\ ~r.saved
              /\ r.reason \in {"too_early", "no_nations"}
              /\ r.data = World

\* An event has fired, nations exist, and the shortest interval has not
\* passed since.
C19_Witness ==
    /\ World.last_event_time > 0
    /\ DOMAIN World.nations # {}
    /\ now < World.last_event_time + min_interval
\* ------------------------------------------------------- one random event
\* The world after u1's /join A under a game.initial_troops of troops.
OneNationWorld(troops) ==
    LET created == JoinCommand(default_data, "u1", "A",
                               CHOOSE i \in IDEOLOGIES : TRUE).data
    IN [created EXCEPT !.nations["A"].troops = troops]

\* The largest game.initial_troops of these runs.
MaxEventTroops == 100

InitEvent ==
    /\ \E troops \in 1 .. MaxEventTroops :
          disk = save_game_data(OneNationWorld(troops))
    /\ pending = [p \in Procs |-> Idle]
    /\ now = max_interval
    /\ k_factor = 0
    /\ horizon = max_interval + 1
    /\ fault = NoFault

NextEvent ==
    \E i \in min_interval .. max_interval, n \in Names \cup {None},
       e \in DOMAIN RANDOM_EVENTS : RandomEvent(i, n, e)

SpecEvent == InitEvent /\ [][NextEvent]_vars

\* The world with one field of one nation set to a value.
WithField(game_data, nation_name, field, value) ==
    CASE field = "troops" ->
            [game_data EXCEPT !.nations[nation_name].troops = value]
      [] field = "territory" ->
            [game_data EXCEPT !.nations[nation_name].territory = value]
      [] field = "population" ->
            [game_data EXCEPT !.nations[nation_name].population = value]

FieldOf(nation_info, field) ==
    CASE field = "troops" -> nation_info.troops
      [] field = "territory" -> nation_info.territory
      [] field = "population" -> nation_info.population

\* C20: an event that fires sets one of troops, territory and population of
\* one existing nation to max(1, floor(old value x multiplier)) and
\* last_event_time to the time of the call, and leaves every other nation,
\* every other field, the players and the alliances as they were.
C20_EventFrame ==
    \A interval \in min_interval .. max_interval, t \in Drawable(World),
       e \in DOMAIN RANDOM_EVENTS :
        LET event == RANDOM_EVENTS[e]
            r == RandomEventAction(World, now, interval, t, event)
            old_value == FieldOf(World.nations[t], event.effect)
            floored == IF (old_value * event.multiplier) \div 100 >= 1
                       THEN (old_value * event.multiplier) \div 100 ELSE 1
        IN r.saved =>
             r.data = [WithField(World, t, event.effect, floored)
                          EXCEPT !.last_event_time = now]
\* ------------------------------------------------------------- rejections
\* Requests of every kind: known and unknown players and nations, amounts
\* below, at and above what a nation holds, known and unknown ranks and
\* ideologies.
AnyUser == Users \cup {"u3"}

AnyName == Names \cup {"C"}

Amounts == {-1, 0, 1, initial_troops, MaxAttack + 1}

AnyRank == {"Marshal", Soldier}

AnyIdeology == IDEOLOGIES \cup {"Unknown"}

\* The reasons a handler gives for refusing a request.
RejectionReasons ==
    {"already_member", "no_nation", "self", "unknown_nation",
     "already_allied", "not_leader", "target_no_leader", "not_allied",
     "no_record", "allied", "not_positive", "insufficient", "below_zero",
     "above_troops", "not_member", "unknown_rank", "unknown_ideology"}

\* The results of every request of every kind in a world.
Requests(game_data) ==
    {JoinCommand(game_data, u, n, i) :
        u \in AnyUser, n \in AnyName, i \in IDEOLOGIES}
    \cup {AllyCommand(game_data, u, n) : u \in AnyUser, n \in AnyName}
    \cup {WithdrawCommand(game_data, u, n) : u \in AnyUser, n \in AnyName}
    \cup {PvpCommand(game_data, u, n, a, m[1], m[2], k_factor) :
            u \in AnyUser, n \in AnyName, a \in Amounts, m \in Multipliers}
    \cup {ConquerCommand(game_data, u, n, a, m[1], m[2], k_factor) :
            u \in AnyUser, n \in AnyName, a \in Amounts, m \in Multipliers}
    \cup {DeployCommand(game_data, u, a) : u \in AnyUser, a \in Amounts}
    \cup {TransferCommand(game_data, u, v, a) :
            u \in AnyUser, v \in AnyUser, a \in Amounts}
    \cup {AppointCommand(game_data, u, v, r) :
            u \in AnyUser, v \in AnyUser, r \in AnyRank}
    \cup {SetIdeologyCommand(game_data, u, i) :
            u \in AnyUser, i \in AnyIdeology}

\* C21: a request that is refused for a validation reason does not reach the
\* save and leaves the world it loaded as it was; a request that is not
\* refused reaches the save.
C21_RejectionKeepsState ==
    \A r \in Requests(World) :
        IF r.reason \in RejectionReasons
        THEN ~r.saved /\ r.data = World
        ELSE r.saved

\* Two allied nations, each led by its only member: attacks on the ally, on
\* oneself and on an unknown nation, a deployment above the troops, a second
\* /join and an unknown rank are all refused here.
C21_Witness ==
    \E u \in Users, t \in Names :
        LET x == get_player_nation(World, u)
        IN /\ x # None /\ x # t
           /\ PvpCommand(World, u, t, 1, 100, 100, k_factor).reason = "allied"
           /\ ConquerCommand(World, u, x, 1, 100, 100, k_factor).reason = "self"
           /\ PvpCommand(World, u, "C", 1, 100, 100, k_factor).reason
                 = "unknown_nation"
           /\ DeployCommand(World, u, MaxAttack + 1).reason = "above_troops"
           /\ JoinCommand(World, u, x, CHOOSE i \in IDEOLOGIES : TRUE).reason
                 = "already_member"
           /\ AppointCommand(World, u, u, Soldier).reason = "unknown_rank"
           /\ SetIdeologyCommand(World, u, "Unknown").reason = "unknown_ideology"
           /\ TransferCommand(World, u, "u3", 1).reason \in {"not_member", "not_leader"}
\* The first of the six preconditions of a combat that fails, in the order
\* attacker has a nation, target exists, target is another nation, the two
\* are not allied, count above 0, count within the attacker's troops.
FirstFailing(game_data, user_id, target_nation_name, attack_troops) ==
    LET x == get_player_nation(game_data, user_id)
    IN CASE x = None -> "no_nation"
         [] x # None /\ target_nation_name \notin DOMAIN game_data.nations ->
               "unknown_nation"
         [] x # None /\ target_nation_name \in DOMAIN game_data.nations
               /\ x = target_nation_name -> "self"
         [] OTHER ->
               IF {x, target_nation_name} \in game_data.alliances THEN "allied"
               ELSE IF ~(attack_troops > 0) THEN "not_positive"
               ELSE IF ~(game_data.nations[x].troops >= attack_troops)
               THEN "insufficient"
               ELSE "none"

\* C22: /pvp and /conquer are resolved exactly when all six preconditions
\* hold, and are refused with the reason of the first one that fails
\* otherwise.
C22_CombatPreconditions ==
    \A u \in AnyUser, t \in AnyName, a \in Amounts, m \in Multipliers :
        LET failing == FirstFailing(World, u, t, a)
            pvp == PvpCommand(World, u, t, a, m[1], m[2], k_factor)
            conquer == ConquerCommand(World, u, t, a, m[1], m[2], k_factor)
        IN /\ pvp.saved <=> failing = "none"
           /\ conquer.saved <=> failing = "none"
           /\ failing # "none" =>
                 pvp.reason = failing /\ conquer.reason = failing
           /\ failing = "none" =>
                 pvp.reason \in {"won", "lost"}
                    /\ conquer.reason \in {"won", "lost"}

\* Two allied nations: a request with several failing preconditions gets the
\* reason of the first, and each of the six reasons is given to some request
\* but for the alliance being in the way of the last two.
C22_Witness ==
    \E u \in Users, t \in Names :
        LET x == get_player_nation(World, u)
        IN /\ x # None /\ x # t /\ {x, t} \in World.alliances
           /\ PvpCommand(World, "u3", "C", 0, 100, 100, k_factor).reason
                 = "no_nation"
           /\ PvpCommand(World, u, "C", 0, 100, 100, k_factor).reason
                 = "unknown_nation"
           /\ ConquerCommand(World, u, x, 0, 100, 100, k_factor).reason = "self"
           /\ ConquerCommand(World, u, t, 0, 100, 100, k_factor).reason = "allied"
           /\ PvpCommand(World, u, t, MaxAttack + 1, 100, 100, k_factor).reason
                 = "allied"
\* The first failing precondition of /ally in the order leader of the own
\* nation, target exists with a leader, not already allied, target is
\* another nation.
ProposeFirstFailing(game_data, user_id, ally_nation_name) ==
    LET x == get_player_nation(game_data, user_id)
    IN IF game_data.nations[x].leader # user_id THEN "not_leader"
       ELSE IF ally_nation_name \notin DOMAIN game_data.nations
       THEN "unknown_nation"
       ELSE IF game_data.nations[ally_nation_name].leader = None
       THEN "target_no_leader"
       ELSE IF {x, ally_nation_name} \in game_data.alliances
       THEN "already_allied"
       ELSE IF x = ally_nation_name THEN "self"
       ELSE "none"

\* C23: a member's /ally is refused with the reason of the first failing
\* precondition in the order leader, target exists with a leader, not already
\* allied, not the own nation; a member who is not leader and proposes to an
\* allied nation is told that he is not the leader.
C23_ProposeOrder ==
    \A u \in Users, t \in AnyName :
        get_player_nation(World, u) # None =>
            LET failing == ProposeFirstFailing(World, u, t)
                ally == AllyCommand(World, u, t)
            IN /\ ally.saved <=> failing = "none"
               /\ failing # "none" => ally.reason = failing
\* C24: the effective defence of a combat is max(1, troops - deployed troops)
\* of the defender, the attacker wins exactly when committed troops times his
\* multiplier is strictly above the effective defence times the defender's
\* multiplier, and equal powers are a win of the defender.  The winner is read
\* from the report and, in a raid, from the side whose territory grows.
C24_OutcomeRule ==
    \A u \in Users, t \in Names, a \in Amounts, m \in Multipliers :
        FirstFailing(World, u, t, a) = "none" =>
            LET x == get_player_nation(World, u)
                defender == World.nations[t]
                effectiveDefense ==
                    IF defender.troops - defender.deployed_troops >= 1
                    THEN defender.troops - defender.deployed_troops ELSE 1
                stronger == a * m[1] > effectiveDefense * m[2]
                pvp == PvpCommand(World, u, t, a, m[1], m[2], k_factor)
                conquer == ConquerCommand(World, u, t, a, m[1], m[2], k_factor)
            IN /\ pvp.reason = (IF stronger THEN "won" ELSE "lost")
               /\ conquer.reason = (IF stronger THEN "won" ELSE "lost")
               /\ stronger <=>
                     conquer.data.nations[x].territory > World.nations[x].territory
               /\ ~stronger <=>
                     conquer.data.nations[t].territory > World.nations[t].territory

\* A defender with deployed troops is attacked with exactly his effective
\* defence and equal multipliers, and the defender wins.
C24_Witness ==
    \E u \in Users, t \in Names, a \in Amounts :
        /\ FirstFailing(World, u, t, a) = "none"
        /\ World.nations[t].deployed_troops > 0
        /\ a = effective_defense_troops(World.nations[t])
        /\ PvpCommand(World, u, t, a, 100, 100, k_factor).reason = "lost"
        /\ ConquerCommand(World, u, t, a, 100, 100, k_factor).reason = "lost"
\* ---------------------------------------------- combat at the default scale
\* The defaults of game.initial_troops and game.elo_k_factor.
default_initial_troops == 1000

default_elo_k_factor == 32

MaxTimeDuel == 2

\* The troops of the second nation: fresh, or worn down by earlier combat.
DuelTroops == {5, default_initial_troops}

DuelAttacks == {1, default_initial_troops \div 2}

\* u1 founds A and u2 founds B under the default configuration; B holds the
\* given troops.
DuelWorld(troops) ==
    LET ideology == CHOOSE i \in IDEOLOGIES : TRUE
        a == JoinCommand(default_data, "u1", "A", ideology).data
        b == JoinCommand(a, "u2", "B", ideology).data
    IN [b EXCEPT !.nations["A"].troops = default_initial_troops,
                 !.nations["B"].troops = troops]

InitDuel ==
    /\ \E troops \in DuelTroops : disk = save_game_data(DuelWorld(troops))
    /\ pending = [p \in Procs |-> Idle]
    /\ now = 0
    /\ k_factor = default_elo_k_factor
    /\ horizon = MaxTimeDuel
    /\ fault = NoFault

NextDuel ==
    \/ \E u \in Users, n \in Names, a \in DuelAttacks, m \in Multipliers :
            Pvp(u, n, a, m[1], m[2])
    \/ \E u \in Users, n \in Names, a \in DuelAttacks, m \in Multipliers :
            Conquer(u, n, a, m[1], m[2])
    \/ \E u \in Users, k \in DuelTroops : Deploy(u, k)

SpecDuel == InitDuel /\ [][NextDuel]_vars

\* floor(percent / 100 * x)
PercentOf(percent, x) == (percent * x) \div 100

\* max(1, troops - deployed troops) of a nation
EffectiveDefense(nation) ==
    IF nation.troops - nation.deployed_troops >= 1
    THEN nation.troops - nation.deployed_troops ELSE 1

\* C25: when the attacker wins, his nation loses
\* min(floor(0.2 x effectiveDefense), committed) troops in a battle and
\* min(floor(0.15 x effectiveDefense), committed) in a raid, and the defender
\* loses min(floor(0.3 x committed), defenderTroops) in a battle and
\* min(floor(0.2 x committed), defenderTroops) in a raid.
C25_WinLosses ==
    \A u \in Users, t \in Names, a \in DuelAttacks, m \in Multipliers :
        LET x == get_player_nation(World, u)
            pvp == PvpCommand(World, u, t, a, m[1], m[2], k_factor)
            conquer == ConquerCommand(World, u, t, a, m[1], m[2], k_factor)
            effectiveDefense == EffectiveDefense(World.nations[t])
        IN /\ pvp.reason = "won" =>
                /\ World.nations[x].troops - pvp.data.nations[x].troops
                      = Min(PercentOf(20, effectiveDefense), a)
                /\ World.nations[t].troops - pvp.data.nations[t].troops
                      = Min(PercentOf(30, a), World.nations[t].troops)
           /\ conquer.reason = "won" =>
                /\ World.nations[x].troops - conquer.data.nations[x].troops
                      = Min(PercentOf(15, effectiveDefense), a)
                /\ World.nations[t].troops - conquer.data.nations[t].troops
                      = Min(PercentOf(20, a), World.nations[t].troops)

\* A won battle and a won raid against a defender with fewer troops than
\* a fifth of the committed troops.
C25_Witness ==
    \E u \in Users, t \in Names, a \in DuelAttacks :
        /\ PvpCommand(World, u, t, a, 120, 80, k_factor).reason = "won"
        /\ ConquerCommand(World, u, t, a, 120, 80, k_factor).reason = "won"
        /\ World.nations[t].troops < PercentOf(20, a)
        /\ PercentOf(20, EffectiveDefense(World.nations[t])) > 0
\* C26: when the attacker loses, his nation loses
\* min(floor(0.2 x committed), effectiveDefense) troops in a battle and
\* min(floor(0.15 x committed), effectiveDefense) in a raid, and the defender
\* loses min(floor(0.3 x effectiveDefense), committed) in a battle and
\* min(floor(0.2 x effectiveDefense), committed) in a raid.
C26_LoseLosses ==
    \A u \in Users, t \in Names, a \in DuelAttacks, m \in Multipliers :
        LET x == get_player_nation(World, u)
            pvp == PvpCommand(World, u, t, a, m[1], m[2], k_factor)
            conquer == ConquerCommand(World, u, t, a, m[1], m[2], k_factor)
            effectiveDefense == EffectiveDefense(World.nations[t])
        IN /\ pvp.reason = "lost" =>
                /\ World.nations[x].troops - pvp.data.nations[x].troops
                      = Min(PercentOf(20, a), effectiveDefense)
                /\ World.nations[t].troops - pvp.data.nations[t].troops
                      = Min(PercentOf(30, effectiveDefense), a)
           /\ conquer.reason = "lost" =>
                /\ World.nations[x].troops - conquer.data.nations[x].troops
                      = Min(PercentOf(15, a), effectiveDefense)
                /\ World.nations[t].troops - conquer.data.nations[t].troops
                      = Min(PercentOf(20, effectiveDefense), a)
\* ------------------------------------------------ raids over large territory
MaxTimeRaid == 2

\* The territory a nation holds when it is raided: the floor, the default of
\* game.initial_territory, and two large enough for 5% and 3% to exceed 1.
default_initial_territory == 15

RaidTerritories == {1, default_initial_territory, 40, 100}

RaidAttacks == {default_initial_troops \div 2, default_initial_troops}

RaidWorld(territory_a, territory_b) ==
    [DuelWorld(default_initial_troops) EXCEPT
        !.nations["A"].territory = territory_a,
        !.nations["B"].territory = territory_b]

\* /conquer with no bound on the territory.
Raid(user_id, target_nation_name, attack_troops, am, dm) ==
    Run(ConquerCommand(load_game_data(disk), user_id,
                target_nation_name, attack_troops, am, dm, k_factor))

InitRaid ==
    /\ \E territory_a \in RaidTerritories, territory_b \in RaidTerritories :
          disk = save_game_data(RaidWorld(territory_a, territory_b))
    /\ pending = [p \in Procs |-> Idle]
    /\ now = 0
    /\ k_factor = default_elo_k_factor
    /\ horizon = MaxTimeRaid
    /\ fault = NoFault

NextRaid ==
    \E u \in Users, n \in Names, a \in RaidAttacks, m \in Multipliers :
        Raid(u, n, a, m[1], m[2])

SpecRaid == InitRaid /\ [][NextRaid]_vars

\* C27: a won raid adds max(1, floor(5% of the defender's territory before the
\* raid)) to the attacker's territory, a lost raid adds max(1, floor(3% of the
\* attacker's territory before the raid)) to the defender's, and the amount is
\* at least 1.
C27_TerritoryAmount ==
    \A u \in Users, t \in Names, a \in RaidAttacks, m \in Multipliers :
        LET x == get_player_nation(World, u)
            conquer == ConquerCommand(World, u, t, a, m[1], m[2], k_factor)
            gained == conquer.data.nations[x].territory - World.nations[x].territory
            given == conquer.data.nations[t].territory - World.nations[t].territory
            five == PercentOf(5, World.nations[t].territory)
            three == PercentOf(3, World.nations[x].territory)
        IN /\ conquer.reason = "won" =>
                gained = (IF five >= 1 THEN five ELSE 1) /\ gained >= 1
           /\ conquer.reason = "lost" =>
                given = (IF three >= 1 THEN three ELSE 1) /\ given >= 1
\* After a first raid, a raid that can be won and lost by an attacker whose
\* 3% is above 1 against a defender whose 5% is below 1.
C27_Witness ==
    \E u \in Users, t \in Names, a \in RaidAttacks :
        LET x == get_player_nation(World, u)
        IN /\ now > 0
           /\ ConquerCommand(World, u, t, a, 120, 80, k_factor).reason = "won"
           /\ ConquerCommand(World, u, t, a, 80, 120, k_factor).reason = "lost"
           /\ PercentOf(3, World.nations[x].territory) > 1
           /\ PercentOf(5, World.nations[t].territory) = 0
\* C28: in every raid the territory added to the winner equals the territory
\* taken from the loser, so the sum of the two nations' territory is the same
\* before and after, also when the loser holds exactly 1.
C28_TerritoryConserved ==
    \A u \in Users, t \in Names, a \in RaidAttacks, m \in Multipliers :
        LET x == get_player_nation(World, u)
            conquer == ConquerCommand(World, u, t, a, m[1], m[2], k_factor)
        IN conquer.saved =>
              conquer.data.nations[x].territory + conquer.data.nations[t].territory
                 = World.nations[x].territory + World.nations[t].territory

\* The same for losers that hold more than 1.
TerritoryConservedAboveFloor ==
    \A u \in Users, t \in Names, a \in RaidAttacks, m \in Multipliers :
        LET x == get_player_nation(World, u)
            conquer == ConquerCommand(World, u, t, a, m[1], m[2], k_factor)
            loser == IF conquer.reason = "won" THEN t ELSE x
        IN conquer.saved /\ World.nations[loser].territory > 1 =>
              conquer.data.nations[x].territory + conquer.data.nations[t].territory
                 = World.nations[x].territory + World.nations[t].territory
\* C29: when A and B are fresh, not allied, hold 1000 troops each with none
\* deployed, and A battles B with 500 troops, exactly one of A and B loses
\* troops, whichever side wins.
C29_ExactlyOneLoses ==
    \A u \in Users, t \in Names, m \in Multipliers :
        LET x == get_player_nation(World, u)
            pvp == PvpCommand(World, u, t, default_initial_troops \div 2,
                              m[1], m[2], k_factor)
        IN /\ pvp.saved
           /\ World.alliances = {}
           /\ \A n \in {x, t} :
                 /\ World.nations[n].troops = default_initial_troops
                 /\ World.nations[n].deployed_troops = 0
           => (pvp.data.nations[x].troops < World.nations[x].troops)
                 # (pvp.data.nations[t].troops < World.nations[t].troops)
C31_RanksAreKnown ==
    \A u \in DOMAIN World.players : World.players[u].rank \in RANK_NAMES
\* C32: a successful /join makes the player leader of the nation exactly when
\* the nation did not exist before (the player is then its only member) or
\* existed without a leader; a nation that has a leader keeps that leader.
C32_JoinLeadership ==
    \A u \in Users, n \in Names, i \in IDEOLOGIES :
        LET join == JoinCommand(World, u, n, i)
            existed == n \in DOMAIN World.nations
        IN join.saved =>
              /\ join.data.nations[n].leader = u
                    <=> (~existed \/ World.nations[n].leader = None)
              /\ ~existed => join.data.nations[n].members = <<u>>
              /\ existed /\ World.nations[n].leader # None =>
                    join.data.nations[n].leader = World.nations[n].leader

\* A nation without a leader that a player can join, next to a nation with a
\* leader that a player can join.
C32_Witness ==
    \E u \in Users, v \in Users, n \in Names, m \in Names, i \in IDEOLOGIES :
        /\ n \in DOMAIN World.nations /\ m \in DOMAIN World.nations
        /\ World.nations[n].leader = None
        /\ World.nations[m].leader \notin {None, v}
        /\ JoinCommand(World, u, n, i).reason = "joined"
        /\ JoinCommand(World, v, m, i).reason = "joined"
\* --------------------------------------------- alliances among four nations
MaxTimeAlliance == 2

FourUsers == {LeaderOf[n] : n \in FourNames}

InitAlliance ==
    /\ \E alliances \in SUBSET Pairs :
          disk = save_game_data(FourNationWorld(alliances, 0))
    /\ pending = [p \in Procs |-> Idle]
    /\ now = 0
    /\ k_factor = 0
    /\ horizon = MaxTimeAlliance
    /\ fault = NoFault

NextAlliance ==
    \/ \E u \in FourUsers, n \in FourNames : Ally(u, n)
    \/ \E u \in FourUsers, n \in FourNames : Withdraw(u, n)

SpecAlliance == InitAlliance /\ [][NextAlliance]_vars

\* C33: an alliance formed by /ally of A's leader towards B is dissolved by
\* /withdraw of B's leader towards A as well as of A's leader towards B;
\* afterwards A and B are not allies in either order and the world is the one
\* before the /ally, every other alliance being untouched by both commands.
C33_ProposeThenDissolve ==
    \A a \in FourNames, b \in FourNames :
        LET proposed == AllyCommand(World, LeaderOf[a], b)
            reloaded == load_game_data(save_game_data(proposed.data))
        IN proposed.saved =>
              /\ proposed.data.alliances \ {{a, b}} = World.alliances
              /\ {a, b} \in reloaded.alliances
              /\ \A pair \in {<<a, b>>, <<b, a>>} :
                    LET dissolved ==
                            WithdrawCommand(reloaded, LeaderOf[pair[1]], pair[2])
                    IN /\ dissolved.saved
                       /\ ~are_allies(dissolved.data, a, b)
                       /\ ~are_allies(dissolved.data, b, a)
                       /\ dissolved.data.alliances = World.alliances
                       /\ dissolved.data = World

\* A's leader can propose to B while A, B and the other two nations have
\* alliances that must survive.
C33_Witness ==
    /\ AllyCommand(World, "u1", "B").saved
    /\ {{"A", "C"}, {"B", "D"}, {"C", "D"}} \subseteq World.alliances
    /\ now > 0
\* A nation with its troops and rating taken from another record.
WithTroopsAndElo(nation, other) ==
    [nation EXCEPT !.troops = other.troops, !.elo = other.elo]

\* C34: a resolved battle changes only the troops and the rating of the
\* attacker's nation and of the target nation; their other fields, every
\* other nation, the players, the alliances and last_event_time are as
\* before, in the handler's world and in the file it writes.
C34_BattleFrame ==
    \A u \in FourUsers, t \in FourNames, a \in Amounts, m \in Multipliers :
        LET x == get_player_nation(World, u)
            pvp == PvpCommand(World, u, t, a, m[1], m[2], k_factor)
            after == load_game_data(save_game_data(pvp.data))
        IN pvp.saved =>
              /\ after = pvp.data
              /\ DOMAIN after.nations = DOMAIN World.nations
              /\ \A n \in DOMAIN World.nations :
                    IF n \in {x, t}
                    THEN WithTroopsAndElo(World.nations[n], after.nations[n])
                            = after.nations[n]
                    ELSE after.nations[n] = World.nations[n]
              /\ after.players = World.players
              /\ after.alliances = World.alliances
              /\ after.last_event_time = World.last_event_time

\* A battle that costs both sides troops, in a world with two other nations
\* and alliances.
C34_Witness ==
    \E a \in Amounts :
        LET pvp == PvpCommand(World, "u1", "B", a, 100, 100, k_factor)
        IN /\ pvp.saved
           /\ pvp.data.nations["A"].troops < World.nations["A"].troops
           /\ {{"A", "C"}, {"C", "D"}} \subseteq World.alliances
\* The player leads the nation they are in.
LeadsOwnNation(game_data, user_id) ==
    LET x == get_player_nation(game_data, user_id)
    IN /\ x # None
       /\ x \in DOMAIN game_data.nations
       /\ game_data.nations[x].leader = user_id
       /\ user_id \in Range(game_data.nations[x].members)

\* The two players are in the same nation.
SameNation(game_data, user_id, target_user_id) ==
    /\ target_user_id \in DOMAIN game_data.players
    /\ game_data.players[target_user_id].nation
          = get_player_nation(game_data, user_id)
    /\ target_user_id
          \in Range(game_data.nations[get_player_nation(game_data, user_id)].members)

\* C35: /ally, /withdraw, /transfer, /appoint and /set_ideology change the
\* world only when the caller leads the nation they are in now; any other
\* caller, a plain member or a leader who has left, is refused and nothing
\* changes; /appoint and /transfer also need a target who is a member of the
\* caller's nation now.
C35_LeaderOnly ==
    \A u \in AnyUser :
        /\ \A n \in AnyName :
              \A r \in {AllyCommand(World, u, n), WithdrawCommand(World, u, n)} :
                 /\ r.saved => LeadsOwnNation(World, u)
                 /\ ~LeadsOwnNation(World, u) => ~r.saved /\ r.data = World
        /\ \A i \in AnyIdeology :
              LET r == SetIdeologyCommand(World, u, i)
              IN /\ r.saved => LeadsOwnNation(World, u)
                 /\ ~LeadsOwnNation(World, u) => ~r.saved /\ r.data = World
        /\ \A t \in AnyUser :
              \A r \in {AppointCommand(World, u, t, rank) : rank \in AnyRank}
                         \cup {TransferCommand(World, u, t, k) : k \in Amounts} :
                 /\ r.saved => LeadsOwnNation(World, u) /\ SameNation(World, u, t)
                 /\ ~LeadsOwnNation(World, u) => ~r.saved /\ r.data = World
                 /\ LeadsOwnNation(World, u) /\ ~SameNation(World, u, t) =>
                       ~r.saved /\ r.data = World

\* A nation whose founder has left, so that its remaining member is not its
\* leader, next to the founder leading another nation and able to act there.
C35_Witness ==
    \E u \in Users, v \in Users :
        LET x == get_player_nation(World, u)
        IN /\ x # None /\ World.nations[x].leader = None
           /\ AppointCommand(World, u, u, "Marshal").reason = "not_leader"
           /\ TransferCommand(World, u, u, 1).reason = "not_leader"
           /\ LeadsOwnNation(World, v)
           /\ AppointCommand(World, v, v, "Marshal").saved
           /\ AppointCommand(World, v, u, "Marshal").reason = "not_member"
           /\ TransferCommand(World, v, u, 1).reason = "not_member"
\* The structure of a world: every player's nation exists and lists the
\* player, a leader is a member, a player is in at most one nation and once,
\* and every alliance is a pair of two different nations that exist.
Structural(game_data) ==
    /\ \A u \in DOMAIN game_data.players :
          LET n == game_data.players[u].nation
          IN /\ n \in DOMAIN game_data.nations
             /\ u \in Range(game_data.nations[n].members)
    /\ \A n \in DOMAIN game_data.nations :
          /\ game_data.nations[n].leader # None =>
                game_data.nations[n].leader \in Range(game_data.nations[n].members)
          /\ \A u \in Range(game_data.nations[n].members) :
                /\ Count(game_data.nations[n].members, u) = 1
                /\ \A other \in DOMAIN game_data.nations \ {n} :
                      u \notin Range(game_data.nations[other].members)
    /\ \A alliance \in game_data.alliances :
          /\ Cardinality(alliance) = 2
          /\ alliance \subseteq DOMAIN game_data.nations

\* C36: whatever the overlap of the handlers at their awaits, the file always
\* holds a world with this structure, and so does every copy a handler is
\* about to write.
C36_PersistedStructure ==
    /\ disk.complete
    /\ Structural(World)
    /\ \A i \in DOMAIN disk.alliances : Len(disk.alliances[i]) = 2
    /\ \A p \in Procs : pending[p].busy => Structural(pending[p].data)

\* A handler that loaded the file before another handler's save is about to
\* write a copy without a player and without an alliance that the file holds
\* by now.
C36_Witness ==
    \E p \in Procs :
        /\ pending[p].busy
        /\ pending[p].base # disk
        /\ ~(DOMAIN World.players \subseteq DOMAIN pending[p].data.players)
        /\ World.alliances # {}
        /\ pending[p].data.alliances = {}
\* ------------------------------ handlers with and without an await to save
MaxTimeSchedule == 3

\* The events drawn in these runs: one on troops, one on territory.
ScheduleEvents == {1, 5}

InitSchedule ==
    /\ disk = NoFile
    /\ pending = [p \in Procs |-> Idle]
    /\ now = 0
    /\ k_factor = 0
    /\ horizon = MaxTimeSchedule
    /\ fault = NoFault

NextSchedule ==
    \/ \E p \in Procs, u \in Users, n \in Names, i \in IDEOLOGIES :
            BeginJoin(p, u, n, i)
    \/ \E p \in Procs, u \in Users, n \in Names, m \in Multipliers :
            BeginPvp(p, u, n, initial_troops, m[1], m[2])
    \/ \E p \in Procs : Commit(p)
    \/ \E u \in Users, k \in DeployChoices : DeployNow(u, k)
    \/ \E u, t \in Users : TransferNow(u, t, 1)
    \/ \E u, t \in Users : AppointNow(u, t, "Marshal")
    \/ \E u \in Users, i \in IDEOLOGIES : SetIdeologyNow(u, i)
    \/ \E i \in min_interval .. max_interval, n \in Names \cup {None},
          e \in ScheduleEvents : RandomEventNow(i, n, e)

SpecSchedule == InitSchedule /\ [][NextSchedule]_vars

MaxTimeLifecycle == 3

\* The place of pending that stands for self.game_state of the plugin object:
\* busy when on_load has set it.
PluginObject == 1

\* Lines 368-372: self.game_state = self._load_game_data(self.data_file).
on_load ==
    /\ ~pending[PluginObject].busy
    /\ pending' = [pending EXCEPT ![PluginObject] =
                      [busy |-> TRUE, data |-> load_game_data(disk), base |-> disk]]
    /\ UNCHANGED <<disk, now, k_factor, horizon, fault>>

\* Lines 374-378: self._save_game_data(self.game_state, self.data_file);
\* _save_game_data returns at once when the state is None.
on_unload ==
    /\ pending[PluginObject].busy
    /\ disk' = save_game_data(pending[PluginObject].data)
    /\ pending' = [pending EXCEPT ![PluginObject] = Idle]
    /\ UNCHANGED <<now, k_factor, horizon, fault>>

\* /join to its save; no other handler is waiting in these runs.
JoinNow(user_id, nation_name, ideology) ==
    RunNow(JoinCommand(load_game_data(disk), user_id, nation_name, ideology))

InitLifecycle ==
    /\ disk = NoFile
    /\ pending = [p \in Procs |-> Idle]
    /\ now = 0
    /\ k_factor = 0
    /\ horizon = MaxTimeLifecycle
    /\ fault = NoFault

NextLifecycle ==
    \/ on_load
    \/ on_unload
    \/ \E u \in Users, n \in Names, i \in IDEOLOGIES : JoinNow(u, n, i)
    \/ \E u \in Users, k \in DeployChoices : DeployNow(u, k)
    \/ \E u, t \in Users : AppointNow(u, t, "Marshal")

SpecLifecycle == InitLifecycle /\ [][NextLifecycle]_vars

\* C38: unloading the plugin does not change the persisted world: after
\* on_load and any commands, on_unload leaves in the file the world of the
\* last command.
C38_UnloadKeepsWorld ==
    [][on_unload => load_game_data(disk') = load_game_data(disk)]_vars
\* ------------------------------------- the event action next to a waiting join
MaxTimeEventOverlap == 4

InitEventOverlap ==
    /\ disk = NoFile
    /\ pending = [p \in Procs |-> Idle]
    /\ now = 0
    /\ k_factor = 0
    /\ horizon = MaxTimeEventOverlap
    /\ fault = NoFault

NextEventOverlap ==
    \/ \E p \in Procs, u \in Users, n \in Names, i \in IDEOLOGIES :
            BeginJoin(p, u, n, i)
    \/ \E p \in Procs : Commit(p)
    \/ \E i \in min_interval .. max_interval, n \in Names \cup {None},
          e \in ScheduleEvents : RandomEventNow(i, n, e)
    \/ Tick

SpecEventOverlap == InitEventOverlap /\ [][NextEventOverlap]_vars

\* C39: the persisted last_event_time never decreases, also when commands
\* overlap the event action at their awaits; with it, an event fires no
\* sooner than the minimal interval after the one before.
C39_EventTimeNeverDecreases ==
    [][load_game_data(disk').last_event_time
          >= load_game_data(disk).last_event_time]_vars
====
